---- MODULE Spec2Model ----
(***************************************************************************)
(* A model of the secrets router (src/secrets-router/main.py): the         *)
(* priority-ordered resolution of one secret over the configured Dapr      *)
(* secret stores, the per-store key construction and the value decoding.   *)
(*                                                                         *)
(* Strings of the program are sequences of code points, byte strings are   *)
(* sequences of 0..255, so that lower(), strip(), substring tests, Base64  *)
(* and UTF-8 are computed and not assumed.                                 *)
(***************************************************************************)
EXTENDS Integers, Sequences, FiniteSets, TLC

\* ------------------------------------------------------------------ bounds
\* Longest configured store priority list.
MaxStores == 2

\* ----------------------------------------------------------------- strings
\* "kubernetes", "aws", "secretsmanager": the substrings the store type is
\* recognised by.
KUBERNETES == <<107, 117, 98, 101, 114, 110, 101, 116, 101, 115>>
AWS == <<97, 119, 115>>
SECRETSMANAGER ==
    <<115, 101, 99, 114, 101, 116, 115, 109, 97, 110, 97, 103, 101, 114>>
\* "/app/secrets", the default of the environment variable.
AWS_SECRETS_PATH_PREFIX == <<47, 97, 112, 112, 47, 115, 101, 99, 114, 101, 116, 115>>
\* "/"
SLASH == <<47>>

\* str.lower() on the ASCII range (store names are ASCII).
LowerChar(c) == IF c \in 65..90 THEN c + 32 ELSE c
Lower(s) == [i \in 1..Len(s) |-> LowerChar(s[i])]

\* Python's `sub in s` on strings.
Contains(s, sub) ==
    \E i \in 0..(Len(s) - Len(sub)) :
        \A j \in 1..Len(sub) : s[i + j] = sub[j]

\* str.strip(): leading and trailing ASCII whitespace removed.
IsSpace(c) == c \in {9, 10, 11, 12, 13, 32}
RECURSIVE LStrip(_)
LStrip(s) ==
    IF Len(s) > 0 /\ IsSpace(Head(s)) THEN LStrip(Tail(s)) ELSE s
RECURSIVE RStrip(_)
RStrip(s) ==
    IF Len(s) > 0 /\ IsSpace(s[Len(s)])
    THEN RStrip(SubSeq(s, 1, Len(s) - 1))
    ELSE s
Strip(s) == LStrip(RStrip(s))

\* Optional[str]: None, or a string.
None == [some |-> FALSE, val |-> <<>>]
Some(s) == [some |-> TRUE, val |-> s]
\* Python's `not namespace`: None and "" are both falsy.
Falsy(ns) == ~ns.some \/ Len(ns.val) = 0

\* ------------------------------------------------------------------ errors
NoError == [type |-> "None", status_code |-> 0, detail |-> ""]
HTTPException(code, detail) ==
    [type |-> "HTTPException", status_code |-> code, detail |-> detail]
HTTPStatusError(code) ==
    [type |-> "HTTPStatusError", status_code |-> code, detail |-> "status"]
RequestError(detail) ==
    [type |-> "RequestError", status_code |-> 0, detail |-> detail]

Raise(e) == [raised |-> TRUE, err |-> e, key |-> <<>>]
ReturnKey(k) == [raised |-> FALSE, err |-> NoError, key |-> k]

\* ----------------------------------------------------------- key formatter
\* "default"
DEFAULT_NAMESPACE == <<100, 101, 102, 97, 117, 108, 116>>

\* The key formatter with a default namespace in place of the 400: a missing
\* namespace never raises.
construct_secret_key_default_namespace(secret_name, namespace, store_name) ==
    LET store_lower == Lower(store_name)
        ns == IF Falsy(namespace) THEN DEFAULT_NAMESPACE ELSE namespace.val
    IN IF Contains(store_lower, KUBERNETES)
       THEN ReturnKey(ns \o SLASH \o secret_name)
       ELSE IF Contains(store_lower, AWS) \/ Contains(store_lower, SECRETSMANAGER)
       THEN ReturnKey(AWS_SECRETS_PATH_PREFIX \o SLASH \o ns \o SLASH \o secret_name)
       ELSE ReturnKey(ns \o SLASH \o secret_name)

\* The key formatter with the AWS test before the Kubernetes test.
construct_secret_key_aws_first(secret_name, namespace, store_name) ==
    LET store_lower == Lower(store_name) IN
    IF Contains(store_lower, AWS) \/ Contains(store_lower, SECRETSMANAGER)
    THEN IF Falsy(namespace)
         THEN Raise(HTTPException(400,
                  "namespace query parameter is required for AWS Secrets Manager"))
         ELSE ReturnKey(AWS_SECRETS_PATH_PREFIX \o SLASH \o namespace.val
                            \o SLASH \o secret_name)
    ELSE IF Falsy(namespace)
         THEN Raise(HTTPException(400,
                  "namespace query parameter is required for Kubernetes secrets"))
         ELSE ReturnKey(namespace.val \o SLASH \o secret_name)

construct_secret_key(secret_name, namespace, store_name) ==
    LET store_lower == Lower(store_name) IN
    IF Contains(store_lower, KUBERNETES)
    THEN IF Falsy(namespace)
         THEN Raise(HTTPException(400,
                  "namespace query parameter is required for Kubernetes secrets"))
         ELSE ReturnKey(namespace.val \o SLASH \o secret_name)
    ELSE IF Contains(store_lower, AWS) \/ Contains(store_lower, SECRETSMANAGER)
    THEN IF Falsy(namespace)
         THEN Raise(HTTPException(400,
                  "namespace query parameter is required for AWS Secrets Manager"))
         ELSE ReturnKey(AWS_SECRETS_PATH_PREFIX \o SLASH \o namespace.val
                            \o SLASH \o secret_name)
    ELSE IF Falsy(namespace)
         THEN Raise(HTTPException(400, "namespace query parameter is required"))
         ELSE ReturnKey(namespace.val \o SLASH \o secret_name)

\* ------------------------------------------------------------------ codecs
\* Result of a conversion that may raise.
Fail == [ok |-> FALSE, val |-> <<>>]
Ok(v) == [ok |-> TRUE, val |-> v]

IsAscii(s) == \A i \in 1..Len(s) : s[i] < 128

\* The Base64 alphabet: A-Z a-z 0-9 + /, and 64 for any other character.
B64Index(c) ==
    IF c \in 65..90 THEN c - 65
    ELSE IF c \in 97..122 THEN c - 97 + 26
    ELSE IF c \in 48..57 THEN c - 48 + 52
    ELSE IF c = 43 THEN 62
    ELSE IF c = 47 THEN 63
    ELSE 64
B64Char(v) ==
    IF v < 26 THEN 65 + v
    ELSE IF v < 52 THEN 97 + (v - 26)
    ELSE IF v < 62 THEN 48 + (v - 52)
    ELSE IF v = 62 THEN 43
    ELSE 47
\* "="
PAD == 61

\* binascii.a2b_base64 in its default, non-strict mode: characters outside
\* the alphabet are skipped, padding that completes a quad ends the input,
\* a dangling quad is an error.
RECURSIVE A2B(_, _, _, _, _, _)
A2B(s, i, quad_pos, leftchar, pads, out) ==
    IF i > Len(s)
    THEN IF quad_pos = 0 THEN Ok(out) ELSE Fail
    ELSE IF s[i] = PAD
    THEN IF quad_pos >= 2 /\ quad_pos + pads + 1 >= 4
         THEN Ok(out)
         ELSE A2B(s, i + 1, quad_pos, leftchar,
                  IF quad_pos >= 2 THEN pads + 1 ELSE pads, out)
    ELSE LET v == B64Index(s[i]) IN
         IF v >= 64
         THEN A2B(s, i + 1, quad_pos, leftchar, pads, out)
         ELSE IF quad_pos = 0
         THEN A2B(s, i + 1, 1, v, 0, out)
         ELSE IF quad_pos = 1
         THEN A2B(s, i + 1, 2, v % 16, 0,
                  Append(out, (leftchar * 4 + (v \div 16)) % 256))
         ELSE IF quad_pos = 2
         THEN A2B(s, i + 1, 3, v % 4, 0,
                  Append(out, (leftchar * 16 + (v \div 4)) % 256))
         ELSE A2B(s, i + 1, 0, 0, 0,
                  Append(out, (leftchar * 64 + v) % 256))

\* base64.b64decode(value) for a str: ASCII only, then a2b_base64.
b64decode(s) == IF IsAscii(s) THEN A2B(s, 1, 0, 0, 0, <<>>) ELSE Fail

\* base64.b64encode(b), as the characters of the result.
RECURSIVE b64encode(_)
b64encode(b) ==
    IF Len(b) = 0 THEN <<>>
    ELSE IF Len(b) = 1
    THEN <<B64Char(b[1] \div 4), B64Char((b[1] % 4) * 16), PAD, PAD>>
    ELSE IF Len(b) = 2
    THEN <<B64Char(b[1] \div 4),
           B64Char((b[1] % 4) * 16 + (b[2] \div 16)),
           B64Char((b[2] % 16) * 4), PAD>>
    ELSE <<B64Char(b[1] \div 4),
           B64Char((b[1] % 4) * 16 + (b[2] \div 16)),
           B64Char((b[2] % 16) * 4 + (b[3] \div 64)),
           B64Char(b[3] % 64)>> \o b64encode(SubSeq(b, 4, Len(b)))

IsCont(b, i) == i <= Len(b) /\ b[i] \in 128..191

\* bytes.decode('utf-8'), strict: the code points, or a UnicodeDecodeError.
RECURSIVE utf8_decode_from(_, _, _)
utf8_decode_from(b, i, out) ==
    IF i > Len(b) THEN Ok(out)
    ELSE IF b[i] < 128
    THEN utf8_decode_from(b, i + 1, Append(out, b[i]))
    ELSE IF b[i] \in 194..223
    THEN IF IsCont(b, i + 1)
         THEN utf8_decode_from(b, i + 2,
                  Append(out, (b[i] - 192) * 64 + (b[i + 1] - 128)))
         ELSE Fail
    ELSE IF b[i] \in 224..239
    THEN IF /\ IsCont(b, i + 1) /\ IsCont(b, i + 2)
            /\ (b[i] = 224 => b[i + 1] >= 160)
            /\ (b[i] = 237 => b[i + 1] <= 159)
         THEN utf8_decode_from(b, i + 3,
                  Append(out, (b[i] - 224) * 4096 + (b[i + 1] - 128) * 64
                                  + (b[i + 2] - 128)))
         ELSE Fail
    ELSE IF b[i] \in 240..244
    THEN IF /\ IsCont(b, i + 1) /\ IsCont(b, i + 2) /\ IsCont(b, i + 3)
            /\ (b[i] = 240 => b[i + 1] >= 144)
            /\ (b[i] = 244 => b[i + 1] <= 143)
         THEN utf8_decode_from(b, i + 4,
                  Append(out, (b[i] - 240) * 262144 + (b[i + 1] - 128) * 4096
                                  + (b[i + 2] - 128) * 64 + (b[i + 3] - 128)))
         ELSE Fail
    ELSE Fail
utf8_decode(b) == utf8_decode_from(b, 1, <<>>)

\* str.encode('utf-8'): the bytes, or a UnicodeEncodeError on a surrogate.
RECURSIVE utf8_encode(_)
utf8_encode(s) ==
    IF Len(s) = 0 THEN Ok(<<>>)
    ELSE LET c == Head(s)
             rest == utf8_encode(Tail(s))
             first ==
                 IF c < 128 THEN <<c>>
                 ELSE IF c < 2048 THEN <<192 + (c \div 64), 128 + (c % 64)>>
                 ELSE IF c < 65536
                 THEN <<224 + (c \div 4096), 128 + ((c \div 64) % 64),
                        128 + (c % 64)>>
                 ELSE <<240 + (c \div 262144), 128 + ((c \div 4096) % 64),
                        128 + ((c \div 64) % 64), 128 + (c % 64)>>
         IN IF c \in 55296..57343 \/ ~rest.ok THEN Fail
            ELSE Ok(first \o rest.val)

\* bytes.hex(): two lowercase hexadecimal digits per byte.
HexDigit(n) == IF n < 10 THEN 48 + n ELSE 97 + (n - 10)
RECURSIVE Hex(_)
Hex(b) ==
    IF Len(b) = 0 THEN <<>>
    ELSE <<HexDigit(Head(b) \div 16), HexDigit(Head(b) % 16)>> \o Hex(Tail(b))

\* ----------------------------------------------------- the Dapr secrets API
\* What the sidecar holds for one secret store component.
\*   kind "down":      every request is answered with the HTTP status `status`
\*   kind "unreachable": every request fails in transport (connect, timeout)
\*   kind "up":        GET of a key in `keys` answers 200 with `data`, any
\*                     other key answers 404
\* A JSON object with no fields.
EmptyMapping == [f \in {} |-> <<>>]
StoreDown(code) == [kind |-> "down", status |-> code, keys |-> {}, data |-> EmptyMapping]
StoreUnreachable == [kind |-> "unreachable", status |-> 0, keys |-> {}, data |-> EmptyMapping]
StoreUp(keys, data) == [kind |-> "up", status |-> 200, keys |-> keys, data |-> data]

\* The response to GET /v1.0/secrets/{store_name}/{secret_key}.
DaprGet(state, secret_key) ==
    IF state.kind = "unreachable"
    THEN [transport_error |-> TRUE, status_code |-> 0, json |-> EmptyMapping]
    ELSE IF state.kind = "down"
    THEN [transport_error |-> FALSE, status_code |-> state.status, json |-> EmptyMapping]
    ELSE IF secret_key \in state.keys
    THEN [transport_error |-> FALSE, status_code |-> 200, json |-> state.data]
    ELSE [transport_error |-> FALSE, status_code |-> 404, json |-> EmptyMapping]

\* _get_secret_from_dapr on that response: the mapping, None, or a raise.
get_secret_from_dapr(response) ==
    IF response.transport_error
    THEN [raised |-> TRUE, err |-> RequestError("request error"),
          is_none |-> FALSE, data |-> EmptyMapping]
    ELSE IF response.status_code = 404
    THEN [raised |-> FALSE, err |-> NoError, is_none |-> TRUE, data |-> EmptyMapping]
    ELSE IF response.status_code >= 400
    THEN [raised |-> TRUE, err |-> HTTPStatusError(response.status_code),
          is_none |-> FALSE, data |-> EmptyMapping]
    ELSE [raised |-> FALSE, err |-> NoError, is_none |-> FALSE,
          data |-> response.json]

\* Python's truth value of `secret_data`: None and {} are falsy.
Truthy(fetched) == ~fetched.is_none /\ DOMAIN fetched.data # {}

\* ------------------------------------------------------- value conversions
\* Lines 102-115: a string from a "kubernetes" store is replaced by the text
\* of its Base64 decoding when both decodings succeed, and kept otherwise.
\* The fallback of the `except` branch left out: a value that is no Base64
\* becomes the empty string.
auto_decode_no_fallback(store_name, value) ==
    IF Contains(Lower(store_name), KUBERNETES)
    THEN LET raw == b64decode(value)
             text == IF raw.ok THEN utf8_decode(raw.val) ELSE Fail
         IN IF text.ok THEN text.val ELSE IF raw.ok THEN value ELSE <<>>
    ELSE value
auto_decode(store_name, value) ==
    IF Contains(Lower(store_name), KUBERNETES)
    THEN LET raw == b64decode(value)
             text == IF raw.ok THEN utf8_decode(raw.val) ELSE Fail
         IN IF text.ok THEN text.val ELSE value
    ELSE value

\* Lines 117-127: the value as requested, or the UnicodeEncodeError of
\* value.encode('utf-8').
\* The Base64 encoding of line 124 left out: decode = False hands out the
\* value as it is.
final_value_unencoded(value, decode) ==
    IF decode THEN Ok(value)
    ELSE LET bytes == utf8_encode(value) IN
         IF bytes.ok THEN Ok(value) ELSE Fail
final_value(value, decode) ==
    IF decode THEN Ok(value)
    ELSE LET bytes == utf8_encode(value) IN
         IF bytes.ok THEN Ok(b64encode(bytes.val)) ELSE Fail

\* --------------------------------------------------------- configurations
\* Store names as they may stand in SECRET_STORE_PRIORITY before strip():
\* "kubernetes-secrets", " Kubernetes-AWS", "aws-secrets-manager", "vault".
K8S_STORE ==
    <<107, 117, 98, 101, 114, 110, 101, 116, 101, 115, 45, 115, 101, 99, 114,
      101, 116, 115>>
MIXED_STORE ==
    <<32, 75, 117, 98, 101, 114, 110, 101, 116, 101, 115, 45, 65, 87, 83>>
AWS_STORE ==
    <<97, 119, 115, 45, 115, 101, 99, 114, 101, 116, 115, 45, 109, 97, 110, 97,
      103, 101, 114>>
VAULT_STORE == <<118, 97, 117, 108, 116>>
RawStoreNames == {K8S_STORE, MIXED_STORE, AWS_STORE, VAULT_STORE}

\* The secret asked for: name "db", field "password", namespace absent, "",
\* "prod" or "dev".
DB == <<100, 98>>
PROD == <<112, 114, 111, 100>>
DEV == <<100, 101, 118>>
Namespaces == {None, Some(<<>>), Some(PROD), Some(DEV)}
Queries ==
    [secret_name : {DB}, secret_key : {"password"}, namespace : Namespaces,
     decode : BOOLEAN]

\* Where the stores hold the secret "db" of namespace "prod": "prod/db" and
\* "/app/secrets/prod/db".
HeldKeys ==
    {PROD \o SLASH \o DB, AWS_SECRETS_PATH_PREFIX \o SLASH \o PROD \o SLASH \o DB}

\* Stored field values: Base64 of the text "hi", Base64 of the byte FF, and
\* the plain text "hi".
TEXT_B64 == b64encode(<<104, 105>>)
BINARY_B64 == b64encode(<<255>>)
PLAIN == <<104, 105>>
StoredValues == {TEXT_B64, BINARY_B64, PLAIN}

\* The JSON objects a store may answer with: no field, a field other than
\* the one asked for, or the field asked for.
Mappings(values) ==
    {EmptyMapping, [f \in {"username"} |-> PLAIN]}
        \cup {[f \in {"password"} |-> v] : v \in values}

StoreStates(values) ==
    {StoreDown(500), StoreUnreachable, StoreUp({}, EmptyMapping)}
        \cup {StoreUp(HeldKeys, d) : d \in Mappings(values)}

\* The concurrent calls of get_secret the model follows.
Calls == {"c1", "c2"}

\* ------------------------------------------------------------------- state
VARIABLES
    store_priority,  \* SecretsRouter.store_priority
    backend,         \* the state of each Dapr secret store component
    pc,              \* where each call of get_secret stands
    query,           \* the arguments of each call
    idx,             \* the position of the for loop in store_priority
    last_error,      \* the local last_error
    error_store,     \* position of the store whose exception last_error is
    dapr_secret_key, \* the key of the fetch awaited
    probes,          \* the fetches issued so far, in order
    tried,           \* the loop iterations begun so far, in order
    result,          \* the dictionary returned, if any
    raised           \* the exception raised, if any

vars ==
    <<store_priority, backend, pc, query, idx, last_error, error_store,
      dapr_secret_key, probes, tried, result, raised>>

NoQuery ==
    [secret_name |-> <<>>, secret_key |-> "", namespace |-> None,
     decode |-> FALSE]
NoResult ==
    [returned |-> FALSE, backend |-> <<>>, secret_name |-> <<>>,
     secret_key |-> "", value |-> <<>>, encoded |-> FALSE]
NoRaise == [thrown |-> FALSE, status_code |-> 0, last_error |-> NoError]

\* SecretsRouter.__init__: every configured name stripped, order kept.
StripAll(store_list) == [i \in 1..Len(store_list) |-> Strip(store_list[i])]

Range(f) == {f[x] : x \in DOMAIN f}
ListsUpTo(S, n) == UNION {[1..k -> S] : k \in 1..n}

\* The router constructed from a configured list, the stores of the list in
\* any state, and the calls in `arriving` still to come.
InitWith(lists, states, arriving) ==
    /\ \E raw \in lists : store_priority = StripAll(raw)
    /\ backend \in [Range(store_priority) -> states]
    /\ pc = [c \in Calls |-> IF c \in arriving THEN "idle" ELSE "off"]
    /\ query = [c \in Calls |-> NoQuery]
    /\ idx = [c \in Calls |-> 0]
    /\ last_error = [c \in Calls |-> NoError]
    /\ error_store = [c \in Calls |-> 0]
    /\ dapr_secret_key = [c \in Calls |-> <<>>]
    /\ probes = [c \in Calls |-> <<>>]
    /\ tried = [c \in Calls |-> <<>>]
    /\ result = [c \in Calls |-> NoResult]
    /\ raised = [c \in Calls |-> NoRaise]

Init == InitWith(ListsUpTo(RawStoreNames, MaxStores), StoreStates(StoredValues), {"c1"})

\* ----------------------------------------------------------------- actions
\* The store of the current loop iteration, and the fetch it answers with.
store_name(c) == store_priority[idx[c]]
InLoop(c) == pc[c] = "loop" /\ idx[c] <= Len(store_priority)
formed_key(c) ==
    construct_secret_key(query[c].secret_name, query[c].namespace, store_name(c))
fetched(c) ==
    get_secret_from_dapr(DaprGet(backend[store_name(c)], dapr_secret_key[c]))

\* One loop iteration as begun: the position and what the key formatter gave.
Attempt(c) == [pos |-> idx[c], formed |-> formed_key(c)]

\* The loop goes on to the next store: `continue`, or the end of the body.
NextStore(c) ==
    /\ idx' = [idx EXCEPT ![c] = idx[c] + 1]
    /\ pc' = [pc EXCEPT ![c] = "loop"]

\* The router remembers that a call has ended and lets the next one begin at
\* the last store of the list instead of the first.
StartWhereLastEnded(c, q) ==
    /\ pc[c] = "idle"
    /\ query' = [query EXCEPT ![c] = q]
    /\ last_error' = [last_error EXCEPT ![c] = NoError]
    /\ idx' = [idx EXCEPT ![c] =
                  IF \E d \in Calls : pc[d] = "done"
                  THEN Len(store_priority) ELSE 1]
    /\ pc' = [pc EXCEPT ![c] = "loop"]
    /\ UNCHANGED <<store_priority, backend, error_store, dapr_secret_key,
                   probes, tried, result, raised>>

\* get_secret(secret_name, secret_key, namespace, decode) is called.
Start(c, q) ==
    /\ pc[c] = "idle"
    /\ query' = [query EXCEPT ![c] = q]
    /\ last_error' = [last_error EXCEPT ![c] = NoError]
    /\ idx' = [idx EXCEPT ![c] = 1]
    /\ pc' = [pc EXCEPT ![c] = "loop"]
    /\ UNCHANGED <<store_priority, backend, error_store, dapr_secret_key,
                   probes, tried, result, raised>>

\* The 400 of the key formatter leaves get_secret instead of being caught:
\* the call ends with it.
ConstructKeyRaisesAborts(c) ==
    /\ InLoop(c)
    /\ formed_key(c).raised
    /\ raised' = [raised EXCEPT ![c] =
                     [thrown |-> TRUE, status_code |-> formed_key(c).err.status_code,
                      last_error |-> formed_key(c).err]]
    /\ tried' = [tried EXCEPT ![c] = Append(tried[c], Attempt(c))]
    /\ pc' = [pc EXCEPT ![c] = "done"]
    /\ UNCHANGED <<store_priority, backend, query, idx, last_error,
                   error_store, dapr_secret_key, probes, result>>

\* _construct_secret_key raises for the store: caught by `except Exception`,
\* kept as last_error, and the loop continues.
ConstructKeyRaises(c) ==
    /\ InLoop(c)
    /\ formed_key(c).raised
    /\ last_error' = [last_error EXCEPT ![c] = formed_key(c).err]
    /\ error_store' = [error_store EXCEPT ![c] = idx[c]]
    /\ tried' = [tried EXCEPT ![c] = Append(tried[c], Attempt(c))]
    /\ NextStore(c)
    /\ UNCHANGED <<store_priority, backend, query, dapr_secret_key, probes,
                   result, raised>>

\* The GET is issued with the secret name as it came, not with the key the
\* formatter returned.
CallDaprUnformatted(c) ==
    /\ InLoop(c)
    /\ ~formed_key(c).raised
    /\ dapr_secret_key' = [dapr_secret_key EXCEPT ![c] = query[c].secret_name]
    /\ probes' = [probes EXCEPT ![c] =
                     Append(probes[c], [store |-> store_name(c),
                                        key |-> query[c].secret_name])]
    /\ tried' = [tried EXCEPT ![c] = Append(tried[c], Attempt(c))]
    /\ pc' = [pc EXCEPT ![c] = "await"]
    /\ UNCHANGED <<store_priority, backend, query, idx, last_error,
                   error_store, result, raised>>

\* The key is formed and the GET to the sidecar is issued and awaited.
CallDapr(c) ==
    /\ InLoop(c)
    /\ ~formed_key(c).raised
    /\ dapr_secret_key' = [dapr_secret_key EXCEPT ![c] = formed_key(c).key]
    /\ probes' = [probes EXCEPT ![c] =
                     Append(probes[c], [store |-> store_name(c),
                                        key |-> formed_key(c).key])]
    /\ tried' = [tried EXCEPT ![c] = Append(tried[c], Attempt(c))]
    /\ pc' = [pc EXCEPT ![c] = "await"]
    /\ UNCHANGED <<store_priority, backend, query, idx, last_error,
                   error_store, result, raised>>

\* A fetch that raises ends the call with a 500 instead of falling back to
\* the next store.
DaprRaisesAborts(c) ==
    /\ pc[c] = "await"
    /\ fetched(c).raised
    /\ raised' = [raised EXCEPT ![c] =
                     [thrown |-> TRUE, status_code |-> 500,
                      last_error |-> fetched(c).err]]
    /\ pc' = [pc EXCEPT ![c] = "done"]
    /\ UNCHANGED <<store_priority, backend, query, idx, last_error,
                   error_store, dapr_secret_key, probes, tried, result>>

\* last_error kept on the router instead of in a local: the exception of
\* one call becomes the last error of every call.
DaprRaisesShared(c) ==
    /\ pc[c] = "await"
    /\ fetched(c).raised
    /\ last_error' = [d \in Calls |-> fetched(c).err]
    /\ error_store' = [error_store EXCEPT ![c] = idx[c]]
    /\ NextStore(c)
    /\ UNCHANGED <<store_priority, backend, query, dapr_secret_key, probes,
                   tried, result, raised>>

\* The fetch raises (a status other than 404, a transport error): kept as
\* last_error, and the loop continues.
DaprRaises(c) ==
    /\ pc[c] = "await"
    /\ fetched(c).raised
    /\ last_error' = [last_error EXCEPT ![c] = fetched(c).err]
    /\ error_store' = [error_store EXCEPT ![c] = idx[c]]
    /\ NextStore(c)
    /\ UNCHANGED <<store_priority, backend, query, dapr_secret_key, probes,
                   tried, result, raised>>

\* The 404 of a store reaches get_secret as an HTTPStatusError and is kept
\* as last_error (the branch of lines 138-142).
NoSecretDataRecorded(c) ==
    /\ pc[c] = "await"
    /\ ~fetched(c).raised
    /\ ~Truthy(fetched(c))
    /\ last_error' = [last_error EXCEPT ![c] = HTTPStatusError(404)]
    /\ error_store' = [error_store EXCEPT ![c] = idx[c]]
    /\ NextStore(c)
    /\ UNCHANGED <<store_priority, backend, query, dapr_secret_key, probes,
                   tried, result, raised>>

\* An empty mapping taken for a secret: the missing field is returned as
\* the empty string; only None (404) lets the loop go on.
NoSecretDataReturnsEmpty(c) ==
    /\ pc[c] = "await"
    /\ ~fetched(c).raised
    /\ ~Truthy(fetched(c))
    /\ IF fetched(c).is_none
       THEN NextStore(c) /\ UNCHANGED result
       ELSE /\ result' = [result EXCEPT ![c] =
                             [returned |-> TRUE,
                              backend |-> store_name(c),
                              secret_name |-> query[c].secret_name,
                              secret_key |-> query[c].secret_key,
                              value |-> <<>>,
                              encoded |-> ~query[c].decode]]
            /\ pc' = [pc EXCEPT ![c] = "done"]
            /\ UNCHANGED idx
    /\ UNCHANGED <<store_priority, backend, query, last_error, error_store,
                   dapr_secret_key, probes, tried, raised>>

\* The fetch returns None (404) or an empty mapping: `if secret_data:` is
\* false and the loop goes on, last_error untouched.
NoSecretData(c) ==
    /\ pc[c] = "await"
    /\ ~fetched(c).raised
    /\ ~Truthy(fetched(c))
    /\ NextStore(c)
    /\ UNCHANGED <<store_priority, backend, query, last_error, error_store,
                   dapr_secret_key, probes, tried, result, raised>>

\* The secret is there without the requested key: `continue`.
KeyNotInSecret(c) ==
    /\ pc[c] = "await"
    /\ ~fetched(c).raised
    /\ Truthy(fetched(c))
    /\ query[c].secret_key \notin DOMAIN fetched(c).data
    /\ NextStore(c)
    /\ UNCHANGED <<store_priority, backend, query, last_error, error_store,
                   dapr_secret_key, probes, tried, result, raised>>

\* The result is noted without `return`: the loop goes on to the stores
\* that follow.
SecretFoundGoesOn(c) ==
    /\ pc[c] = "await"
    /\ ~fetched(c).raised
    /\ Truthy(fetched(c))
    /\ query[c].secret_key \in DOMAIN fetched(c).data
    /\ LET value == auto_decode(store_name(c),
                                fetched(c).data[query[c].secret_key])
           final == final_value(value, query[c].decode)
       IN /\ final.ok
          /\ result' = [result EXCEPT ![c] =
                           [returned |-> TRUE,
                            backend |-> store_name(c),
                            secret_name |-> query[c].secret_name,
                            secret_key |-> query[c].secret_key,
                            value |-> final.val,
                            encoded |-> ~query[c].decode]]
          /\ NextStore(c)
    /\ UNCHANGED <<store_priority, backend, query, last_error, error_store,
                   dapr_secret_key, probes, tried, raised>>

\* The secret holds the requested key: the value is converted and returned
\* (or the conversion raises, which `except Exception` catches).
SecretFound(c) ==
    /\ pc[c] = "await"
    /\ ~fetched(c).raised
    /\ Truthy(fetched(c))
    /\ query[c].secret_key \in DOMAIN fetched(c).data
    /\ LET value == auto_decode(store_name(c),
                                fetched(c).data[query[c].secret_key])
           final == final_value(value, query[c].decode)
       IN IF final.ok
          THEN /\ result' = [result EXCEPT ![c] =
                                [returned |-> TRUE,
                                 backend |-> store_name(c),
                                 secret_name |-> query[c].secret_name,
                                 secret_key |-> query[c].secret_key,
                                 value |-> final.val,
                                 encoded |-> ~query[c].decode]]
               /\ pc' = [pc EXCEPT ![c] = "done"]
               /\ UNCHANGED <<idx, last_error, error_store>>
          ELSE /\ last_error' = [last_error EXCEPT ![c] =
                     [type |-> "UnicodeEncodeError", status_code |-> 0,
                      detail |-> "surrogates not allowed"]]
               /\ error_store' = [error_store EXCEPT ![c] = idx[c]]
               /\ NextStore(c)
               /\ UNCHANGED result
    /\ UNCHANGED <<store_priority, backend, query, dapr_secret_key, probes,
                   tried, raised>>

\* The loop is over without a return: HTTPException 404, its detail naming
\* last_error when there is one.
NotFoundInAnyStore(c) ==
    /\ pc[c] = "loop"
    /\ idx[c] > Len(store_priority)
    /\ raised' = [raised EXCEPT ![c] =
                     [thrown |-> TRUE, status_code |-> 404,
                      last_error |-> last_error[c]]]
    /\ pc' = [pc EXCEPT ![c] = "done"]
    /\ UNCHANGED <<store_priority, backend, query, idx, last_error,
                   error_store, dapr_secret_key, probes, tried, result>>

\* CancelledError caught like any exception of the fetch: kept as
\* last_error, and the loop goes on to the next store.
CancelSwallowed(c) ==
    /\ pc[c] = "await"
    /\ last_error' = [last_error EXCEPT ![c] =
                         [type |-> "CancelledError", status_code |-> 0,
                          detail |-> ""]]
    /\ error_store' = [error_store EXCEPT ![c] = idx[c]]
    /\ NextStore(c)
    /\ UNCHANGED <<store_priority, backend, query, dapr_secret_key, probes,
                   tried, result, raised>>

\* The task of the call is cancelled while the GET is awaited:
\* CancelledError is no Exception, so no handler of get_secret catches it.
Cancel(c) ==
    /\ pc[c] = "await"
    /\ pc' = [pc EXCEPT ![c] = "cancelled"]
    /\ UNCHANGED <<store_priority, backend, query, idx, last_error,
                   error_store, dapr_secret_key, probes, tried, result, raised>>

Next ==
    \E c \in Calls :
        \/ \E q \in Queries : Start(c, q)
        \/ ConstructKeyRaises(c)
        \/ CallDapr(c)
        \/ DaprRaises(c)
        \/ NoSecretData(c)
        \/ KeyNotInSecret(c)
        \/ SecretFound(c)
        \/ NotFoundInAnyStore(c)
        \/ Cancel(c)

Spec == Init /\ [][Next]_vars

\* One store per configured list, with more store names and more payloads:
\* the key formatter and the value conversions on their own.
MaxPayload == 2

\* "KUBERNETES", "aws-kubernetes", "My-SecretsManager", "AWS", "kube".
UPPER_K8S_STORE == <<75, 85, 66, 69, 82, 78, 69, 84, 69, 83>>
AWS_K8S_STORE == <<97, 119, 115, 45, 107, 117, 98, 101, 114, 110, 101, 116, 101, 115>>
SM_STORE ==
    <<77, 121, 45, 83, 101, 99, 114, 101, 116, 115, 77, 97, 110, 97, 103, 101,
      114>>
UPPER_AWS_STORE == <<65, 87, 83>>
KUBE_STORE == <<107, 117, 98, 101>>
MoreStoreNames ==
    RawStoreNames
        \cup {UPPER_K8S_STORE, AWS_K8S_STORE, SM_STORE, UPPER_AWS_STORE, KUBE_STORE}

\* Payloads of 1..MaxPayload bytes over "h", C3, A9 and FF: texts ("h", "hh",
\* C3 A9 is U+00E9) and byte strings that are no UTF-8.
PayloadBytes == {104, 195, 169, 255}
Payloads == ListsUpTo(PayloadBytes, MaxPayload)
MoreStoredValues == {b64encode(p) : p \in Payloads} \cup {PLAIN}

InitSingle ==
    InitWith(ListsUpTo(MoreStoreNames, 1), StoreStates(MoreStoredValues), {"c1"})

SpecSingle == InitSingle /\ [][Next]_vars

\* One store whose field is no Base64 for b64decode: "hi" and "aGk" (wrong
\* padding), "a" (a dangling character), U+00E9 (no ASCII); and "aGk=!",
\* which b64decode takes for "hi" after discarding the "!".
NO_PADDING == <<97, 71, 107>>
ONE_CHAR == <<97>>
NON_ASCII == <<233>>
STRAY_CHAR == <<97, 71, 107, 61, 33>>
MalformedValues == {PLAIN, NO_PADDING, ONE_CHAR, NON_ASCII, STRAY_CHAR}

InitMalformed ==
    InitWith(ListsUpTo({K8S_STORE, MIXED_STORE, AWS_STORE}, 1),
             StoreStates(MalformedValues), {"c1"})

SpecMalformed == InitMalformed /\ [][Next]_vars

\* Two calls on one router, in sequence or interleaved at the awaits, over
\* lists of "kubernetes-secrets" and "vault".
PairStoreNames == {K8S_STORE, VAULT_STORE}
PairStoredValues == {TEXT_B64}
\* Each store answers 500, or 404, or with a record that has fields.
PairStoreStates ==
    {StoreDown(500), StoreUp({}, EmptyMapping)}
        \cup {StoreUp(HeldKeys, d) : d \in Mappings(PairStoredValues) \ {EmptyMapping}}

InitPair ==
    InitWith(ListsUpTo(PairStoreNames, MaxStores), PairStoreStates, Calls)

SpecPair == InitPair /\ [][Next]_vars

\* ------------------------------------------------------------ properties
Positions == 1..Len(store_priority)
IsKubernetes(store) == Contains(Lower(store), KUBERNETES)
IsAws(store) ==
    Contains(Lower(store), AWS) \/ Contains(Lower(store), SECRETSMANAGER)

\* The store at position i, asked for query q under the key the router
\* forms for it, answers 200 with a mapping that has q.secret_key.
Answers(q, i) ==
    LET formed ==
            construct_secret_key(q.secret_name, q.namespace, store_priority[i])
        response == DaprGet(backend[store_priority[i]], formed.key)
    IN /\ ~formed.raised
       /\ ~response.transport_error
       /\ response.status_code = 200
       /\ q.secret_key \in DOMAIN response.json
FirstAnswering(q) ==
    CHOOSE i \in Positions : Answers(q, i) /\ \A j \in 1..(i - 1) : ~Answers(q, j)

\* C1: when some store of the list answers the query with a record that has
\* the requested key, the call returns a result, and its backend is the
\* first such store of the list, whatever the stores before it did.
C1_FirstAnsweringStoreWins ==
    \A c \in Calls :
        (pc[c] = "done" /\ \E i \in Positions : Answers(query[c], i))
            => /\ result[c].returned
               /\ ~raised[c].thrown
               /\ result[c].backend = store_priority[FirstAnswering(query[c])]

\* C1 witness: a call returned the secret of the second store after the
\* first, a different store, had raised.
C1_Witness ==
    \E c \in Calls :
        /\ pc[c] = "done"
        /\ result[c].returned
        /\ Len(store_priority) >= 2
        /\ store_priority[1] # store_priority[2]
        /\ result[c].backend = store_priority[2]
        /\ error_store[c] = 1

TriedPositions(c) == [n \in 1..Len(tried[c]) |-> tried[c][n].pos]
AllPositions == [i \in Positions |-> i]

\* C2: a call that is over has returned a result or raised the 404, never
\* both; a call that is not over has done neither; the 404 is raised only
\* after every store of the list was tried, once each and in order.
C2_ExactlyOneOutcome ==
    \A c \in Calls :
        /\ pc[c] = "done" => (result[c].returned # raised[c].thrown)
        /\ pc[c] # "done" => (~result[c].returned /\ ~raised[c].thrown)
        /\ raised[c].thrown
               => (raised[c].status_code = 404 /\ TriedPositions(c) = AllPositions)

\* C2 witness: a call over two stores ended with the 404 after an error.
C2_Witness ==
    \E c \in Calls :
        /\ pc[c] = "done"
        /\ raised[c].thrown
        /\ Len(tried[c]) >= 2
        /\ raised[c].last_error # NoError

\* C3: in one call no store identifier is fetched twice, whatever list the
\* router was constructed with.
C3_NoStoreFetchedTwice ==
    \A c \in Calls :
        \A m, n \in 1..Len(probes[c]) :
            m < n => probes[c][m].store # probes[c][n].store

\* The stored value v is the Base64 of the bytes it decodes to.
IsBase64Of(v, bytes) == b64decode(v).ok /\ b64decode(v).val = bytes /\ b64encode(bytes) = v
\* The value the store of a returned result holds under the requested key.
StoredValue(c) ==
    backend[result[c].backend].data[query[c].secret_key]
StoredBytes(c) == b64decode(StoredValue(c)).val

\* C4: a result from a kubernetes-style store that holds the Base64 of bytes
\* B that are no UTF-8 has content_type "binary" and the lowercase hex of B
\* as its value.
C4_BinaryAsHex ==
    \A c \in Calls :
        (/\ result[c].returned
         /\ IsKubernetes(result[c].backend)
         /\ IsBase64Of(StoredValue(c), StoredBytes(c))
         /\ ~utf8_decode(StoredBytes(c)).ok)
            => /\ result[c].value = Hex(StoredBytes(c))
               /\ "content_type" \in DOMAIN result[c]
               /\ result[c].content_type = "binary"

\* C5: a result, asked for with the default arguments (decode = False), from
\* a kubernetes-style store that holds the Base64 of the UTF-8 text T has
\* content_type "text" and T itself as its value.
C5_TextVerbatimByDefault ==
    \A c \in Calls :
        (/\ result[c].returned
         /\ ~query[c].decode
         /\ IsKubernetes(result[c].backend)
         /\ IsBase64Of(StoredValue(c), StoredBytes(c))
         /\ utf8_decode(StoredBytes(c)).ok)
            => /\ result[c].value = utf8_decode(StoredBytes(c)).val
               /\ "content_type" \in DOMAIN result[c]
               /\ result[c].content_type = "text"

\* Every store of the list answers the query of call c with 404.
AllNotFound(c) ==
    \A i \in Positions :
        LET formed ==
                construct_secret_key(query[c].secret_name, query[c].namespace,
                                     store_priority[i])
            response == DaprGet(backend[store_priority[i]], formed.key)
        IN /\ ~formed.raised
           /\ ~response.transport_error
           /\ response.status_code = 404

\* The per-store errors the detail of the raised 404 names (lines 151-155):
\* the last error with the store it came from, or nothing.
FailureLog(c) ==
    IF raised[c].last_error = NoError
    THEN <<>>
    ELSE <<[store |-> store_priority[error_store[c]],
            error |-> raised[c].last_error]>>

\* C6: when every store answers NotFound, the failure carries one entry per
\* store of the list, in the order of the list.
C6_OneLogEntryPerStore ==
    \A c \in Calls :
        (pc[c] = "done" /\ AllNotFound(c))
            => /\ raised[c].thrown
               /\ Len(FailureLog(c)) = Len(store_priority)
               /\ \A i \in Positions : FailureLog(c)[i].store = store_priority[i]

\* C7: a call without namespace over a list of kubernetes-style stores only
\* ends with the 404 (no result, no other status), fetches nothing, and the
\* error the 404 carries is the 400 for the missing namespace, raised for
\* the last store of the list.
C7_MissingNamespaceRecorded ==
    \A c \in Calls :
        (/\ pc[c] = "done"
         /\ ~query[c].namespace.some
         /\ \A i \in Positions : IsKubernetes(store_priority[i]))
            => /\ raised[c].thrown
               /\ raised[c].status_code = 404
               /\ ~result[c].returned
               /\ probes[c] = <<>>
               /\ raised[c].last_error =
                      HTTPException(400,
                          "namespace query parameter is required for Kubernetes secrets")
               /\ error_store[c] = Len(store_priority)

\* C7 witness: a call without namespace on the single store
\* "kubernetes-secrets" is over.
C7_Witness ==
    \E c \in Calls :
        /\ pc[c] = "done"
        /\ ~query[c].namespace.some
        /\ store_priority = <<K8S_STORE>>
        /\ raised[c].thrown

\* The loop iterations of every call, as (query, store, formatter outcome).
FormedKeys ==
    UNION {{[q |-> query[c], store |-> store_priority[tried[c][n].pos],
             formed |-> tried[c][n].formed] : n \in 1..Len(tried[c])} :
           c \in Calls}

\* C8: for an aws/secretsmanager-style store (not kubernetes-style) the
\* formatter never fails: the key is "{prefix}/{namespace}/{secret_name}"
\* with a namespace and "{prefix}/{secret_name}" without one.
C8_AwsNamespaceOptional ==
    \A a \in FormedKeys :
        (IsAws(a.store) /\ ~IsKubernetes(a.store))
            => /\ ~a.formed.raised
               /\ ~a.q.namespace.some
                      => a.formed.key =
                             AWS_SECRETS_PATH_PREFIX \o SLASH \o a.q.secret_name
               /\ ~Falsy(a.q.namespace)
                      => a.formed.key =
                             AWS_SECRETS_PATH_PREFIX \o SLASH \o a.q.namespace.val
                                 \o SLASH \o a.q.secret_name

\* C9 as stated: for a store that is neither kubernetes- nor aws-style the
\* formatter never fails and puts a default namespace in place of a missing
\* one.
C9_DefaultNamespaceSubstituted ==
    \A a \in FormedKeys :
        (~IsAws(a.store) /\ ~IsKubernetes(a.store))
            => /\ ~a.formed.raised
               /\ a.formed.key =
                      (IF Falsy(a.q.namespace) THEN DEFAULT_NAMESPACE
                       ELSE a.q.namespace.val) \o SLASH \o a.q.secret_name

\* C9 as amended: for such a store the formatter returns
\* "{namespace}/{secret_name}" for a non-empty namespace and raises the 400
\* "namespace query parameter is required" for an absent or empty one.
C9_NamespaceRequired ==
    \A a \in FormedKeys :
        (~IsAws(a.store) /\ ~IsKubernetes(a.store))
            => IF Falsy(a.q.namespace)
               THEN a.formed =
                        Raise(HTTPException(400,
                            "namespace query parameter is required"))
               ELSE a.formed =
                        ReturnKey(a.q.namespace.val \o SLASH \o a.q.secret_name)

\* C9 witness: the key for the store "vault" was asked for without a
\* namespace.
C9_Witness ==
    \E a \in FormedKeys : a.store = VAULT_STORE /\ ~a.q.namespace.some

\* C10: for a store whose name contains "kubernetes" in any case, also next
\* to "aws", the formatter raises the 400 for an absent or empty namespace
\* and returns exactly "{namespace}/{secret_name}" otherwise.
C10_KubernetesKey ==
    \A a \in FormedKeys :
        IsKubernetes(a.store)
            => IF Falsy(a.q.namespace)
               THEN a.formed =
                        Raise(HTTPException(400,
                            "namespace query parameter is required for Kubernetes secrets"))
               ELSE a.formed =
                        ReturnKey(a.q.namespace.val \o SLASH \o a.q.secret_name)

\* C10 witness: the key for the store "aws-kubernetes" was formed with the
\* namespace "prod".
C10_Witness ==
    \E a \in FormedKeys :
        /\ a.store = AWS_K8S_STORE
        /\ a.q.namespace = Some(PROD)
        /\ ~a.formed.raised

\* The stored value is no Base64: b64decode (line 109) raises for it.
Malformed(v) == ~b64decode(v).ok
\* The text a result carries: its value, Base64-decoded when `encoded`.
Payload(r) ==
    IF r.encoded
    THEN LET raw == b64decode(r.value) IN
         IF raw.ok THEN utf8_decode(raw.val) ELSE Fail
    ELSE Ok(r.value)

IsPrefix(s, t) == Len(s) <= Len(t) /\ \A n \in 1..Len(s) : s[n] = t[n]
Started(c) == pc[c] \notin {"off", "idle"}

\* C12: two calls with the same arguments on the same router, the stores
\* unchanged, fetch the same stores with the same keys in the same order
\* from the top of the list (the fetches of the one that is behind are the
\* first fetches of the other), and when both are over they have returned
\* the same result or raised the same 404.
C12_SameCallSameOutcome ==
    \A c, d \in Calls :
        (Started(c) /\ Started(d) /\ query[c] = query[d])
            => /\ IsPrefix(probes[c], probes[d]) \/ IsPrefix(probes[d], probes[c])
               /\ (pc[c] = "done" /\ pc[d] = "done")
                      => /\ probes[c] = probes[d]
                         /\ tried[c] = tried[d]
                         /\ result[c] = result[d]
                         /\ raised[c] = raised[d]

\* C12 witness: the call c1 is over, having got the secret from the second
\* store after fetching the first, and the call c2, made with the same
\* arguments, has fetched the first store and no more.
C12_Witness ==
    /\ pc["c1"] = "done"
    /\ result["c1"].returned
    /\ Len(probes["c1"]) = 2
    /\ query["c2"] = query["c1"]
    /\ pc["c2"] = "await"
    /\ Len(probes["c2"]) = 1

\* The queries p and q differ in the decode flag at most.
SameButDecode(p, q) == [p EXCEPT !.decode = q.decode] = q

Response(c) ==
    IF result[c].returned
    THEN [status_code |-> 200, errors |-> <<>>]
    ELSE [status_code |-> raised[c].status_code, errors |-> FailureLog(c)]

\* The exception the store at position i raises in call c, if any: from the
\* key formatter, or from the fetch.
ErrorAt(c, i) ==
    LET formed ==
            construct_secret_key(query[c].secret_name, query[c].namespace,
                                 store_priority[i])
        got == get_secret_from_dapr(DaprGet(backend[store_priority[i]], formed.key))
    IN IF formed.raised THEN formed.err
       ELSE IF got.raised THEN got.err ELSE NoError

\* C14: when no store answers the query, the caller gets status 404, never
\* the 400 or 5xx of a store, and the response carries the error of every
\* store that raised one.
C14_NotFoundCarriesStoreErrors ==
    \A c \in Calls :
        (pc[c] = "done" /\ ~\E i \in Positions : Answers(query[c], i))
            => /\ Response(c).status_code = 404
               /\ \A i \in Positions :
                      ErrorAt(c, i) # NoError
                          => \E n \in 1..Len(Response(c).errors) :
                                 Response(c).errors[n] =
                                     [store |-> store_priority[i],
                                      error |-> ErrorAt(c, i)]

\* The store of the current iteration of call c fails: its key cannot be
\* formed, or the fetch awaited raises.
StoreFails(c) ==
    \/ InLoop(c) /\ formed_key(c).raised
    \/ pc[c] = "await" /\ fetched(c).raised

\* C15: the step a call takes on a store that fails (unless the call is
\* cancelled) keeps the exception as last_error and moves to the next
\* position of the list; it neither raises nor returns. An exception
\* leaves the call only from beyond the last position.
C15_StoreFailureNeverEndsCall ==
    [][\A c \in Calls :
          /\ (StoreFails(c) /\ pc'[c] # "cancelled"
                  /\ <<pc[c], idx[c]>> # <<pc'[c], idx'[c]>>)
                 => /\ pc'[c] = "loop"
                    /\ idx'[c] = idx[c] + 1
                    /\ last_error'[c] = ErrorAt(c, idx[c])
                    /\ error_store'[c] = idx[c]
                    /\ ~raised'[c].thrown
                    /\ ~result'[c].returned
          /\ (~raised[c].thrown /\ raised'[c].thrown)
                 => (pc[c] = "loop" /\ idx[c] = Len(store_priority) + 1)]_vars

\* C15 witness: the first store was unreachable, and the call is awaiting
\* the fetch of the second.
C15_Witness ==
    \E c \in Calls :
        /\ pc[c] = "await"
        /\ Len(probes[c]) = 2
        /\ idx[c] = 2
        /\ error_store[c] = 1
        /\ last_error[c].type = "RequestError"

\* C16: the step a call takes on a fetch that brought a record with the
\* requested key (unless the call is cancelled) returns the result of that
\* store and ends the call; from then on the call fetches nothing, begins
\* no further iteration and keeps its result.
C16_NoFetchAfterSuccess ==
    [][\A c \in Calls :
          /\ (/\ pc[c] = "await"
              /\ Answers(query[c], idx[c])
              /\ pc'[c] \notin {"await", "cancelled"})
                 => /\ pc'[c] = "done"
                    /\ result'[c].returned
                    /\ result'[c].backend = store_priority[idx[c]]
                    /\ probes'[c] = probes[c]
          /\ result[c].returned
                 => /\ probes'[c] = probes[c]
                    /\ tried'[c] = tried[c]
                    /\ result'[c] = result[c]
                    /\ pc'[c] = "done"]_vars

\* C16 witness: a call over two different stores is over with the result
\* of the first and one fetch.
C16_Witness ==
    \E c \in Calls :
        /\ pc[c] = "done"
        /\ result[c].returned
        /\ Len(store_priority) >= 2
        /\ store_priority[1] # store_priority[2]
        /\ result[c].backend = store_priority[1]
        /\ Len(probes[c]) = 1

\* The store at position i answers call c with a record that has fields,
\* the requested one not among them.
LacksKey(c, i) ==
    LET formed ==
            construct_secret_key(query[c].secret_name, query[c].namespace,
                                 store_priority[i])
        response == DaprGet(backend[store_priority[i]], formed.key)
    IN /\ ~formed.raised
       /\ ~response.transport_error
       /\ response.status_code = 200
       /\ DOMAIN response.json # {}
       /\ query[c].secret_key \notin DOMAIN response.json

\* C17: a call that ends in failure after a store answered with a record
\* lacking the requested key has gone on to every later store, and its
\* failure carries an entry for that store.
C17_MissingKeyLogged ==
    \A c \in Calls :
        \A i \in Positions :
            (pc[c] = "done" /\ raised[c].thrown /\ LacksKey(c, i))
                => /\ TriedPositions(c) = AllPositions
                   /\ \E n \in 1..Len(FailureLog(c)) :
                          FailureLog(c)[n].store = store_priority[i]

\* C18: a result from a store that is not kubernetes-style has the field
\* value the store holds, unchanged, as its value, and content_type "text".
C18_OtherStoresVerbatim ==
    \A c \in Calls :
        (result[c].returned /\ ~IsKubernetes(result[c].backend))
            => /\ result[c].value = StoredValue(c)
               /\ "content_type" \in DOMAIN result[c]
               /\ result[c].content_type = "text"

\* get_secret run on its own for the query q, from position i of the list
\* with last_error err and the fetches made so far: the fetches it makes
\* and how it ends.
RECURSIVE AloneFrom(_, _, _, _)
AloneFrom(q, i, err, fetches) ==
    IF i > Len(store_priority)
    THEN [probes |-> fetches, result |-> NoResult,
          raised |-> [thrown |-> TRUE, status_code |-> 404, last_error |-> err]]
    ELSE LET store == store_priority[i]
             formed == construct_secret_key(q.secret_name, q.namespace, store)
             got == get_secret_from_dapr(DaprGet(backend[store], formed.key))
             more == Append(fetches, [store |-> store, key |-> formed.key])
             final == final_value(auto_decode(store, got.data[q.secret_key]),
                                  q.decode)
         IN IF formed.raised THEN AloneFrom(q, i + 1, formed.err, fetches)
            ELSE IF got.raised THEN AloneFrom(q, i + 1, got.err, more)
            ELSE IF ~Truthy(got) \/ q.secret_key \notin DOMAIN got.data
            THEN AloneFrom(q, i + 1, err, more)
            ELSE IF ~final.ok
            THEN AloneFrom(q, i + 1,
                           [type |-> "UnicodeEncodeError", status_code |-> 0,
                            detail |-> "surrogates not allowed"], more)
            ELSE [probes |-> more,
                  result |-> [returned |-> TRUE, backend |-> store,
                              secret_name |-> q.secret_name,
                              secret_key |-> q.secret_key,
                              value |-> final.val, encoded |-> ~q.decode],
                  raised |-> NoRaise]
Alone(q) == AloneFrom(q, 1, NoError, <<>>)

\* Call c is where a call running alone would be: its fetches so far are
\* the first fetches of that call, and once over it has made all of them
\* and ended the same way.
RunsAsAlone(c) ==
    Started(c)
        => LET alone == Alone(query[c])
           IN IF pc[c] = "done"
              THEN alone = [probes |-> probes[c], result |-> result[c],
                            raised |-> raised[c]]
              ELSE IsPrefix(probes[c], alone.probes)

\* C19: no step of any call changes the list of stores, and at every
\* moment each call, whatever the other call has done in between, has made
\* the fetches and reached the outcome of a call running alone on the same
\* stores.
C19_ConcurrentCallsIndependent ==
    /\ [][store_priority' = store_priority]_vars
    /\ [](\A c \in Calls : RunsAsAlone(c))

\* C19 witness: two calls with different arguments have a fetch in flight at
\* the same time, c1 its second and c2 its first.
C19_Witness ==
    /\ pc["c1"] = "await" /\ pc["c2"] = "await"
    /\ query["c1"] # query["c2"]
    /\ Len(probes["c1"]) = 2
    /\ Len(probes["c2"]) = 1

\* C20: a call is cancelled only while a fetch is awaited; the cancellation
\* is never kept as the last error of a store; the cancelled call has
\* neither returned a result nor raised the 404, and from then on it stays
\* cancelled, fetches nothing and begins no further iteration.
C20_CancellationEndsCall ==
    [][\A c \in Calls :
          /\ last_error'[c].type # "CancelledError"
          /\ pc'[c] = "cancelled"
                 => /\ pc[c] \in {"await", "cancelled"}
                    /\ ~result'[c].returned
                    /\ ~raised'[c].thrown
                    /\ probes'[c] = probes[c]
                    /\ tried'[c] = tried[c]
                    /\ idx'[c] = idx[c]
                    /\ last_error'[c] = last_error[c]
          /\ pc[c] = "cancelled" => pc'[c] = "cancelled"]_vars

\* C20 witness: a call over two different stores was cancelled during the
\* fetch of the first, which would have raised, and has not fetched the
\* second.
C20_Witness ==
    \E c \in Calls :
        /\ pc[c] = "cancelled"
        /\ Len(store_priority) >= 2
        /\ store_priority[1] # store_priority[2]
        /\ idx[c] = 1
        /\ fetched(c).raised
        /\ Len(probes[c]) = 1

\* The iterations of call c in which the key formatter returned a key.
KeyFormed(a) == ~a.formed.raised
FormedAttempts(c) == SelectSeq(tried[c], KeyFormed)

\* C21: the fetches of a call are, one for one and in order, its iterations
\* in which the key formatter returned a key: each fetch goes to the store
\* of its iteration with exactly the key _construct_secret_key gives for
\* that store, the fetch awaited is made with that key, and a store for
\* which the formatter raised is not fetched in that call.
C21_FetchOnlyWithFormedKey ==
    \A c \in Calls :
        /\ Len(probes[c]) = Len(FormedAttempts(c))
        /\ \A n \in 1..Len(probes[c]) :
               LET a == FormedAttempts(c)[n]
                   store == store_priority[a.pos]
               IN /\ probes[c][n].store = store
                  /\ ReturnKey(probes[c][n].key) =
                         construct_secret_key(query[c].secret_name,
                                              query[c].namespace, store)
        /\ pc[c] = "await"
               => dapr_secret_key[c] = probes[c][Len(probes[c])].key
        /\ \A n \in 1..Len(tried[c]) :
               tried[c][n].formed.raised
                   => \A m \in 1..Len(probes[c]) :
                          probes[c][m].store # store_priority[tried[c][n].pos]

\* C21 witness: a call with an empty namespace went through two different
\* stores, the formatter raised for both, and nothing was fetched.
C21_Witness ==
    \E c \in Calls :
        /\ pc[c] = "done"
        /\ query[c].namespace = Some(<<>>)
        /\ Len(tried[c]) = 2
        /\ store_priority[1] # store_priority[2]
        /\ \A n \in 1..2 : tried[c][n].formed.raised
        /\ probes[c] = <<>>

\* The positions of the list whose store raises an exception in call c.
Raisers(c) == {i \in Positions : ErrorAt(c, i) # NoError}
LastRaiser(c) == CHOOSE i \in Raisers(c) : \A j \in Raisers(c) : j <= i

\* C22: the 404 of a failed call names at most one error of a store: when
\* no store raised, none; otherwise the exception of the last store of the
\* list that raised one, whatever the stores after it answered (404, an
\* empty record, a record without the key).
C22_OnlyLastErrorReported ==
    \A c \in Calls :
        (pc[c] = "done" /\ raised[c].thrown)
            => /\ Len(Response(c).errors) <= 1
               /\ IF Raisers(c) = {}
                  THEN /\ raised[c].last_error = NoError
                       /\ Response(c).errors = <<>>
                  ELSE /\ Response(c).errors =
                              <<[store |-> store_priority[LastRaiser(c)],
                                 error |-> ErrorAt(c, LastRaiser(c))]>>
                       /\ error_store[c] = LastRaiser(c)

\* C22 witness: the first store answered 500, the second, a different one,
\* answered without raising, and the 404 of the call names the 500 of the
\* first.
C22_Witness ==
    \E c \in Calls :
        /\ pc[c] = "done"
        /\ raised[c].thrown
        /\ Len(store_priority) = 2
        /\ store_priority[1] # store_priority[2]
        /\ Len(probes[c]) = 2
        /\ Raisers(c) = {1}
        /\ raised[c].last_error = HTTPStatusError(500)

\* The store at position i answers call c with status 200 and a mapping
\* that has no fields.
EmptyRecord(c, i) ==
    LET formed ==
            construct_secret_key(query[c].secret_name, query[c].namespace,
                                 store_priority[i])
        response == DaprGet(backend[store_priority[i]], formed.key)
    IN /\ ~formed.raised
       /\ ~response.transport_error
       /\ response.status_code = 200
       /\ DOMAIN response.json = {}

\* C23: the step a call takes on a fetch that brought an empty record
\* (unless the call is cancelled) is the step it takes on a 404: on to the
\* next position of the list, last_error as it was, nothing returned and
\* nothing raised; and no call returns a result from a store that answers
\* it with an empty record.
C23_EmptyRecordLikeNotFound ==
    [][\A c \in Calls :
          /\ (/\ pc[c] = "await"
              /\ EmptyRecord(c, idx[c])
              /\ pc'[c] \notin {"await", "cancelled"})
                 => /\ pc'[c] = "loop"
                    /\ idx'[c] = idx[c] + 1
                    /\ last_error'[c] = last_error[c]
                    /\ error_store'[c] = error_store[c]
                    /\ ~result'[c].returned
                    /\ ~raised'[c].thrown
          /\ result'[c].returned
                 => \A i \in Positions :
                        EmptyRecord(c, i)
                            => result'[c].backend # store_priority[i]]_vars

\* C23 witness: the first store answered with an empty record, nothing was
\* recorded, and the call is awaiting the fetch of the second, a different
\* store.
C23_Witness ==
    \E c \in Calls :
        /\ pc[c] = "await"
        /\ idx[c] = 2
        /\ store_priority[1] # store_priority[2]
        /\ EmptyRecord(c, 1)
        /\ Len(probes[c]) = 2
        /\ last_error[c] = NoError

====
